---------------------------- MODULE Spec2Model ----------------------------
(***************************************************************************)
(* Model of the components of MGaming that hold state: the hero video      *)
(* carousel (Hero.jsx, specification Spec), the navigation bar (Navbar.jsx, *)
(* specification SpecNavBar) and the contact form (Contact.jsx,            *)
(* specification SpecContact).  App renders the three side by side; they    *)
(* share no state, so each specification moves one component and leaves    *)
(* the others in their initial state.  SpecVideoPreview moves Hero         *)
(* together with the VideoPreview it renders around the preview            *)
(* (VideoPreview.jsx).                                                     *)
(*                                                                         *)
(* The React state of Hero is currentIndex, hasClicked, loading and        *)
(* loadedVideos.  State setters are applied when the handler runs (every   *)
(* setter that depends on the previous value uses a functional updater, so *)
(* the queued updates compose to the same value).  A commit of the         *)
(* component (Render) writes the src attributes of the three <video>       *)
(* elements and runs the effects whose dependencies changed.               *)
(***************************************************************************)
EXTENDS Integers, FiniteSets, Sequences, TLC

\* ------------------------------------------------------------- bounds ---
\* totalVideos is a constant of Hero (4 as shipped).  The model ranges it
\* over 1..MaxTotalVideos so that statements made for every totalVideos are
\* checked for each value, the shipped one included.
MaxTotalVideos == 4
\* handleVideoLoad is not applied once loadedVideos has reached MaxLoaded.
MaxLoaded == 6
\* handleMiniVdClick is not applied once it has run MaxClicks times.
MaxClicks == 5
\* window scroll positions are 0..MaxScrollY.
MaxScrollY == 3
\* toggleAudioIndicator is not applied once it has run MaxToggles times.
MaxToggles == 4
\* handleSubmit is not applied once it has run MaxSubmits times.
MaxSubmits == 2
\* the mouse offsets from the centre of the preview are the even numbers
\* from -2 * MaxOffset to 2 * MaxOffset.
MaxOffset == 1

\* ---------------------------------------------------- program constants ---
\* const totalVideos = 4
ShippedTotalVideos == 4

VARIABLES
    totalVideos,    \* const totalVideos (fixed for the whole behaviour)
    currentIndex,   \* useState(1)
    hasClicked,     \* useState(false)
    loading,        \* useState(true)
    loadedVideos,   \* useState(0)
    mounted,        \* the effects of the first commit have run
    dirty,          \* a state update is queued: a commit is due
    shownIndex,     \* currentIndex of the last commit (what the DOM shows)
    effLoaded,      \* loadedVideos of the last commit (deps of the loading effect)
    pendingLoad,    \* per <video> element: its src is loading, no loadeddata yet
    signalled,      \* history: indices of the locators that fired loadeddata
    clicks,         \* history: number of handleMiniVdClick calls
    overlayVisible, \* #next-video: gsap.set made it visible (class: invisible)
    overlayPlaying, \* #next-video: nextVdRef.current.play() was called
    transition,     \* the gsap.to tween on #next-video: idle, running, finished
    activeRuns,     \* runs of the transition callback not reverted so far
    shownLoading    \* loading of the last commit: the loading screen, which
                    \* covers the whole hero (absolute z-[100] h-dvh w-screen),
                    \* is in the DOM

heroVars == <<totalVideos, currentIndex, hasClicked, loading, loadedVideos,
              mounted, dirty, shownIndex, effLoaded, pendingLoad, signalled,
              clicks, overlayVisible, overlayPlaying, transition,
              activeRuns, shownLoading>>

\* NavBar (Navbar.jsx).
VARIABLES
    isAudioPlaying,    \* useState(false)
    isIndicatorActive, \* useState(false)
    isNavVisible,      \* useState(true)
    lastScrollY,       \* useState(0)
    currentScrollY,    \* useWindowScroll().y
    floatingNav,       \* navContainerRef.current.classList has "floating-nav"
    audioCommand,      \* last call on audioElementRef.current: none, play, pause
    navMounted,        \* the effects of the first commit have run
    audioDeps,         \* isAudioPlaying at the last run of the audio effect
    navDeps,           \* <<currentScrollY, lastScrollY>> at the last run of
                       \* the scroll effect, <<>> before the first
    seenScrollY,       \* history: scroll position at the last run of the
                       \* scroll effect (0, the top, before the first)
    toggles,           \* history: number of toggleAudioIndicator calls
    navTween,          \* the target of the last gsap.to on the nav container,
                       \* <<>> before the first
    visibleDeps        \* isNavVisible at the last run of the show/hide effect

navVars == <<isAudioPlaying, isIndicatorActive, isNavVisible, lastScrollY,
             currentScrollY, floatingNav, audioCommand, navMounted,
             audioDeps, navDeps, seenScrollY, toggles, navTween, visibleDeps>>

\* Contact (Contact.jsx).
VARIABLES
    formData,       \* useState({ name: "", email: "", subject: "", message: "" })
    isSubmitting,   \* useState(false)
    submitStatus,   \* useState(null): "null", "success" or "error"
    inFlight,       \* handleSubmit calls waiting at the await (timers pending)
    submits,        \* history: number of handleSubmit calls
    completions,    \* history: number of handleSubmit calls that have returned
    shownFormData,  \* formData of the last commit (what the closures of the
                    \* handlers and the inputs hold)
    lastInput       \* history: <<name, value>> of the last change event, <<>>
                    \* before the first

contactVars == <<formData, isSubmitting, submitStatus, inFlight, submits,
                 completions, shownFormData, lastInput>>

\* VideoPreview (VideoPreview.jsx), rendered by Hero around the preview.
VARIABLES
    isHovering,     \* useState(false)
    shownHovering,  \* isHovering of the last commit (what the closure of
                    \* handleMouseMove holds, deps of the reset effect)
    pointerInside,  \* the pointer is over the section: mouseenter was
                    \* dispatched and mouseleave not yet
    tweenTarget,    \* the targets of the last gsap.to calls on sectionRef and
                    \* contentRef, <<>> before the first
    lastMove        \* history: <<xOffset, yOffset, isHovering>> of the last
                    \* handleMouseMove call, <<>> before the first

previewVars == <<isHovering, shownHovering, pointerInside, tweenTarget,
                 lastMove>>

vars == <<heroVars, navVars, contactVars, previewVars>>

\* The three <video> elements of Hero: the mini preview (#current-video),
\* the hidden transition overlay (#next-video) and the main background.
VideoElements == {"preview", "next", "main"}

\* ------------------------------------------------------ pure functions ---

\* getVideoSrc = (index) => `videos/hero-${index}.mp4`
getVideoSrc(index) == "videos/hero-" \o ToString(index) \o ".mp4"

NextIndex_NoWrap(prevIndex, n) == prevIndex + 1

NextIndex_WrapsEarly(prevIndex, n) ==
    IF prevIndex >= n - 1 THEN 1 ELSE prevIndex + 1

\* the updater of setCurrentIndex: (prevIndex % totalVideos) + 1
NextIndex(prevIndex, n) == (prevIndex % n) + 1

\* handleMiniVdClick called k times in a row, starting at index
RECURSIVE AdvanceTimes(_, _, _)
AdvanceTimes(index, n, k) ==
    IF k = 0 THEN index ELSE AdvanceTimes(NextIndex(index, n), n, k - 1)

PreviewIndex_NoModulo(index, n) == index + 1

PreviewIndex_WrapsToZero(index, n) == (index + 1) % n

\* the index of the preview element: (currentIndex % totalVideos) + 1
PreviewIndex(index, n) == (index % n) + 1

BackgroundIndex_LastWraps(index, n) == IF index = n THEN 1 ELSE index

BackgroundIndex_Plain(index, n) == index

\* the index of the main background element:
\* currentIndex === totalVideos - 1 ? 1 : currentIndex
BackgroundIndex(index, n) == IF index = n - 1 THEN 1 ELSE index

\* the index each element's src is computed from, for a committed index
ElementIndex(e, index, n) ==
    CASE e = "preview" -> PreviewIndex(index, n)
      [] e = "next"    -> index
      [] e = "main"    -> BackgroundIndex(index, n)

\* the src attribute of each element
ElementSrc(e, index, n) == getVideoSrc(ElementIndex(e, index, n))

\* The locators the current state renders.
PreviewSrc == ElementSrc("preview", currentIndex, totalVideos)
NextSrc    == ElementSrc("next", currentIndex, totalVideos)
MainSrc    == ElementSrc("main", currentIndex, totalVideos)

\* ------------------------------------------------------------- effects ---

LoadingEffect_Tracks(loaded, n, cur) == loaded /= n - 1

LoadingEffect_AllVideos(loaded, n, cur) == IF loaded = n THEN FALSE ELSE cur

\* useEffect(() => { if (loadedVideos === totalVideos - 1) setLoading(false) },
\*           [loadedVideos]): the value of loading after the effect ran
LoadingEffect(loaded, n, cur) == IF loaded = n - 1 THEN FALSE ELSE cur

\* useGSAP(() => { if (hasClicked) { gsap.set(...visible); gsap.to(...) } },
\*         { dependencies: [currentIndex], revertOnUpdate: true }):
\* when currentIndex changed since the last commit the previous run is
\* reverted (the tween is killed, the overlay is invisible again) and the
\* callback runs again.  The three operators give the tween, the overlay's
\* visibility and whether play() has been called, after a commit.
TransitionEffect(depChanged, clicked, cur) ==
    IF depChanged THEN (IF clicked THEN "running" ELSE "idle") ELSE cur

OverlayVisibleEffect(depChanged, clicked, cur) ==
    IF depChanged THEN clicked ELSE cur

OverlayPlayingEffect(depChanged, clicked, cur) ==
    IF depChanged /\ clicked THEN TRUE ELSE cur

ActiveRunsEffect_NoRevert(depChanged, clicked, cur) ==
    IF depChanged /\ clicked THEN cur + 1 ELSE cur

\* revertOnUpdate: true: the number of runs of the callback whose animations
\* are alive after a commit.  The cleanup reverts the previous run before the
\* callback runs again.
ActiveRunsEffect(depChanged, clicked, cur) ==
    IF depChanged THEN (IF clicked THEN 1 ELSE 0) ELSE cur

\* the targets of the reset effect of VideoPreview: container x, y,
\* rotationY, rotationX and content x, y all 0
NeutralTarget ==
    [container |-> [x |-> 0, y |-> 0, rotationY |-> 0, rotationX |-> 0],
     content   |-> [x |-> 0, y |-> 0]]

\* the targets handleMouseMove gives the two gsap.to calls: the container
\* follows the offsets and rotates by half of them, the content moves the
\* opposite way.  The offsets are even, so the halves are whole numbers.
TiltTarget(xOffset, yOffset) ==
    [container |-> [x |-> xOffset, y |-> yOffset,
                    rotationY |-> xOffset \div 2,
                    rotationX |-> (-yOffset) \div 2],
     content   |-> [x |-> -xOffset, y |-> -yOffset]]

MoveTween_Ungated(hovering, xOffset, yOffset, cur) ==
    <<TiltTarget(xOffset, yOffset)>>

\* handleMouseMove: if (isHovering) { gsap.to(...); gsap.to(...) }
MoveTween(hovering, xOffset, yOffset, cur) ==
    IF hovering THEN <<TiltTarget(xOffset, yOffset)>> ELSE cur

\* useEffect(() => { if (!isHovering) { gsap.to(...0); gsap.to(...0) } },
\*           [isHovering])
ResetTween(hovering, cur) == IF ~hovering THEN <<NeutralTarget>> ELSE cur

\* ---------------------------------------------------------------- Init ---

InitHero ==
    /\ totalVideos \in 1..MaxTotalVideos
    /\ currentIndex = 1
    /\ hasClicked = FALSE
    /\ loading = TRUE
    /\ loadedVideos = 0
    /\ mounted = FALSE
    /\ dirty = FALSE
    /\ shownIndex = 1
    /\ effLoaded = 0
    /\ pendingLoad = [e \in VideoElements |-> TRUE]
    /\ signalled = {}
    /\ clicks = 0
    /\ overlayVisible = FALSE
    /\ overlayPlaying = FALSE
    /\ transition = "idle"
    /\ activeRuns = 0
    /\ shownLoading = TRUE

InitNavBar ==
    /\ isAudioPlaying = FALSE
    /\ isIndicatorActive = FALSE
    /\ isNavVisible = TRUE
    /\ lastScrollY = 0
    /\ currentScrollY = 0
    /\ floatingNav = FALSE
    /\ audioCommand = "none"
    /\ navMounted = FALSE
    /\ audioDeps = FALSE
    /\ navDeps = <<>>
    /\ seenScrollY = 0
    /\ toggles = 0
    /\ navTween = <<>>
    /\ visibleDeps = TRUE

\* the form fields and the values typed into them
FieldNames == {"name", "email", "subject", "message"}
FieldValues == {"", "x", "y"}
EmptyForm == [f \in FieldNames |-> ""]

InitContact ==
    /\ formData = EmptyForm
    /\ isSubmitting = FALSE
    /\ submitStatus = "null"
    /\ inFlight = 0
    /\ submits = 0
    /\ completions = 0
    /\ shownFormData = EmptyForm
    /\ lastInput = <<>>

InitVideoPreview ==
    /\ isHovering = FALSE
    /\ shownHovering = FALSE
    /\ pointerInside = FALSE
    /\ tweenTarget = <<>>
    /\ lastMove = <<>>

Init == InitHero /\ InitNavBar /\ InitContact /\ InitVideoPreview

\* ------------------------------------------------------------- actions ---

\* The effects of the first commit run: the reset effect of VideoPreview,
\* which Hero renders around the preview, and the loading effect, which sees
\* loadedVideos = 0.  Events that arrive before the effects are flushed are
\* handled after them, so the handlers below are guarded by mounted.
Mount ==
    /\ ~mounted
    /\ mounted' = TRUE
    /\ loading' = LoadingEffect(loadedVideos, totalVideos, loading)
    /\ dirty' = (loading' /= loading)
    /\ effLoaded' = loadedVideos
    /\ transition' = TransitionEffect(TRUE, hasClicked, transition)
    /\ overlayVisible' = OverlayVisibleEffect(TRUE, hasClicked, overlayVisible)
    /\ overlayPlaying' = OverlayPlayingEffect(TRUE, hasClicked, overlayPlaying)
    /\ activeRuns' = ActiveRunsEffect(TRUE, hasClicked, activeRuns)
    /\ tweenTarget' = ResetTween(isHovering, tweenTarget)
    /\ UNCHANGED <<isHovering, shownHovering, pointerInside, lastMove>>
    /\ UNCHANGED <<navVars, contactVars>>
    /\ UNCHANGED <<totalVideos, currentIndex, hasClicked, loadedVideos,
                   shownIndex, pendingLoad, signalled, clicks, shownLoading>>

\* {loading && <div className="... absolute z-[100] h-dvh w-screen ...">}:
\* while the loading screen is rendered it lies over the whole hero and takes
\* the pointer events, so a click reaches the preview (z-50 inside the z-10
\* video frame) only after a commit with loading = false.
PreviewClickable == mounted /\ ~shownLoading

handleMiniVdClick_StaleClosure ==
    /\ PreviewClickable
    /\ clicks < MaxClicks
    /\ hasClicked' = TRUE
    /\ currentIndex' = NextIndex(shownIndex, totalVideos)
    /\ dirty' = TRUE
    /\ clicks' = clicks + 1
    /\ UNCHANGED <<navVars, contactVars, previewVars>>
    /\ UNCHANGED <<totalVideos, loading, loadedVideos, mounted, shownIndex,
                   effLoaded, pendingLoad, signalled, overlayVisible,
                   overlayPlaying, transition, activeRuns, shownLoading>>

\* onClick of the mini preview.
handleMiniVdClick ==
    /\ PreviewClickable
    /\ clicks < MaxClicks
    /\ hasClicked' = TRUE
    /\ currentIndex' = NextIndex(currentIndex, totalVideos)
    /\ dirty' = TRUE
    /\ clicks' = clicks + 1
    /\ UNCHANGED <<navVars, contactVars, previewVars>>
    /\ UNCHANGED <<totalVideos, loading, loadedVideos, mounted, shownIndex,
                   effLoaded, pendingLoad, signalled, overlayVisible,
                   overlayPlaying, transition, activeRuns, shownLoading>>

handleVideoLoad_SetsClicked(e) ==
    /\ mounted
    /\ pendingLoad[e]
    /\ loadedVideos < MaxLoaded
    /\ loadedVideos' = loadedVideos + 1
    /\ pendingLoad' = [pendingLoad EXCEPT ![e] = FALSE]
    /\ signalled' = signalled \cup {ElementIndex(e, shownIndex, totalVideos)}
    /\ dirty' = TRUE
    /\ hasClicked' = TRUE
    /\ UNCHANGED <<navVars, contactVars, previewVars>>
    /\ UNCHANGED <<totalVideos, currentIndex, loading, mounted,
                   shownIndex, effLoaded, clicks, overlayVisible,
                   overlayPlaying, transition, activeRuns, shownLoading>>

\* onLoadedData of element e: the resource its src names is ready.  A
\* resource that fails to load never fires the event.
handleVideoLoad(e) ==
    /\ mounted
    /\ pendingLoad[e]
    /\ loadedVideos < MaxLoaded
    /\ loadedVideos' = loadedVideos + 1
    /\ pendingLoad' = [pendingLoad EXCEPT ![e] = FALSE]
    /\ signalled' = signalled \cup {ElementIndex(e, shownIndex, totalVideos)}
    /\ dirty' = TRUE
    /\ UNCHANGED <<navVars, contactVars, previewVars>>
    /\ UNCHANGED <<totalVideos, currentIndex, hasClicked, loading, mounted,
                   shownIndex, effLoaded, clicks, overlayVisible,
                   overlayPlaying, transition, activeRuns, shownLoading>>

\* A commit: the src attributes follow currentIndex (an element whose src
\* changed loads again), the loading effect runs when loadedVideos changed
\* since the last commit, and the transition effect when currentIndex did.
\* The loading screen is rendered with the value loading has before the
\* effects of this commit run.
Render ==
    /\ mounted
    /\ dirty
    /\ shownIndex' = currentIndex
    /\ shownLoading' = loading
    /\ pendingLoad' =
         [e \in VideoElements |->
            IF ElementSrc(e, currentIndex, totalVideos)
                 /= ElementSrc(e, shownIndex, totalVideos)
            THEN TRUE
            ELSE pendingLoad[e]]
    /\ effLoaded' = loadedVideos
    /\ loading' = IF loadedVideos /= effLoaded
                  THEN LoadingEffect(loadedVideos, totalVideos, loading)
                  ELSE loading
    /\ dirty' = (loading' /= loading)
    /\ transition' =
         TransitionEffect(currentIndex /= shownIndex, hasClicked, transition)
    /\ overlayVisible' =
         OverlayVisibleEffect(currentIndex /= shownIndex, hasClicked,
                              overlayVisible)
    /\ overlayPlaying' =
         OverlayPlayingEffect(currentIndex /= shownIndex, hasClicked,
                              overlayPlaying)
    /\ activeRuns' =
         ActiveRunsEffect(currentIndex /= shownIndex, hasClicked, activeRuns)
    /\ UNCHANGED <<navVars, contactVars, previewVars>>
    /\ UNCHANGED <<totalVideos, currentIndex, hasClicked, loadedVideos,
                   mounted, signalled, clicks>>

AnimationComplete_ClearsClicked ==
    /\ transition = "running"
    /\ transition' = "finished"
    /\ hasClicked' = FALSE
    /\ UNCHANGED <<navVars, contactVars, previewVars>>
    /\ UNCHANGED <<totalVideos, currentIndex, loading,
                   loadedVideos, mounted, dirty, shownIndex, effLoaded,
                   pendingLoad, signalled, clicks, overlayVisible,
                   overlayPlaying, activeRuns, shownLoading>>

\* The tween on #next-video reaches its end (duration: 1).  gsap.to is given
\* onStart only: no callback of the component runs when it completes.
AnimationComplete ==
    /\ transition = "running"
    /\ transition' = "finished"
    /\ UNCHANGED <<navVars, contactVars, previewVars>>
    /\ UNCHANGED <<totalVideos, currentIndex, hasClicked, loading,
                   loadedVideos, mounted, dirty, shownIndex, effLoaded,
                   pendingLoad, signalled, clicks, overlayVisible,
                   overlayPlaying, activeRuns, shownLoading>>

Next ==
    \/ Mount
    \/ handleMiniVdClick
    \/ \E e \in VideoElements : handleVideoLoad(e)
    \/ Render
    \/ AnimationComplete

Spec == Init /\ [][Next]_vars

\* the first render of App, with the shipped totalVideos
InitShipped == Init /\ totalVideos = ShippedTotalVideos

\* ======================================================== VideoPreview ===

\* the offsets of the mouse from the centre of the section:
\* clientX - (rect.left + rect.width / 2), clientY - (rect.top + rect.height / 2)
PreviewOffsets == {2 * k : k \in (-MaxOffset)..MaxOffset}

\* onMouseEnter of the section: the pointer comes over the preview, which it
\* reaches when the loading screen is gone.
onMouseEnter ==
    /\ PreviewClickable
    /\ ~pointerInside
    /\ pointerInside' = TRUE
    /\ isHovering' = TRUE
    /\ UNCHANGED <<heroVars, navVars, contactVars>>
    /\ UNCHANGED <<shownHovering, tweenTarget, lastMove>>

\* onMouseLeave of the section.
onMouseLeave ==
    /\ pointerInside
    /\ pointerInside' = FALSE
    /\ isHovering' = FALSE
    /\ UNCHANGED <<heroVars, navVars, contactVars>>
    /\ UNCHANGED <<shownHovering, tweenTarget, lastMove>>

\* onMouseMove of the section, dispatched while the pointer is over it; the
\* handler reads isHovering from the render it was created in.
handleMouseMove(xOffset, yOffset) ==
    /\ pointerInside
    /\ tweenTarget' = MoveTween(shownHovering, xOffset, yOffset, tweenTarget)
    /\ lastMove' = <<xOffset, yOffset, shownHovering>>
    /\ UNCHANGED <<heroVars, navVars, contactVars>>
    /\ UNCHANGED <<isHovering, shownHovering, pointerInside>>

\* A commit of VideoPreview after isHovering changed: the reset effect runs.
PreviewCommit ==
    /\ mounted
    /\ shownHovering /= isHovering
    /\ shownHovering' = isHovering
    /\ tweenTarget' = ResetTween(isHovering, tweenTarget)
    /\ UNCHANGED <<heroVars, navVars, contactVars>>
    /\ UNCHANGED <<isHovering, pointerInside, lastMove>>

NextVideoPreview ==
    \/ Next
    \/ onMouseEnter
    \/ onMouseLeave
    \/ \E xOffset, yOffset \in PreviewOffsets :
          handleMouseMove(xOffset, yOffset)
    \/ PreviewCommit

\* Hero with the shipped totalVideos and the VideoPreview it renders.
SpecVideoPreview == InitShipped /\ [][NextVideoPreview]_vars

\* ============================================================== NavBar ===

NavVisibleAfter_HidesWhenEqual(cur, last, vis) ==
    IF cur = 0 THEN TRUE
    ELSE IF cur >= last THEN FALSE
    ELSE TRUE

\* the scroll effect, isNavVisible: true at the top, false when the position
\* is above lastScrollY, true when it is below, unchanged when equal
NavVisibleAfter(cur, last, vis) ==
    IF cur = 0 THEN TRUE
    ELSE IF cur > last THEN FALSE
    ELSE IF cur < last THEN TRUE
    ELSE vis

FloatingAfter_NotWhenHiding(cur, last, fl) ==
    IF cur = 0 THEN FALSE
    ELSE IF cur < last THEN TRUE
    ELSE fl

FloatingAfter_NoTopCase(cur, last, fl) ==
    IF cur > last THEN TRUE
    ELSE IF cur < last THEN TRUE
    ELSE fl

\* the scroll effect, the "floating-nav" class: removed at the top, added
\* when the position differs from lastScrollY, unchanged when equal
FloatingAfter(cur, last, fl) ==
    IF cur = 0 THEN FALSE
    ELSE IF cur > last THEN TRUE
    ELSE IF cur < last THEN TRUE
    ELSE fl

LastScrollYAfter_Keeps(cur, last) == last

\* the scroll effect: setLastScrollY(currentScrollY)
LastScrollYAfter(cur, last) == cur

\* the audio effect: play() when isAudioPlaying, pause() otherwise
AudioCommandFor(playing) == IF playing THEN "play" ELSE "pause"

\* the show/hide effect: gsap.to(navContainerRef.current,
\*   { y: isNavVisible ? 0 : -100, opacity: isNavVisible ? 1 : 0, ... })
NavTweenFor(visible) ==
    [y |-> IF visible THEN 0 ELSE -100, opacity |-> IF visible THEN 1 ELSE 0]

toggleAudioIndicator_Activates ==
    /\ navMounted
    /\ toggles < MaxToggles
    /\ isAudioPlaying' = ~isAudioPlaying
    /\ isIndicatorActive' = TRUE
    /\ toggles' = toggles + 1
    /\ UNCHANGED <<heroVars, contactVars, previewVars>>
    /\ UNCHANGED <<isNavVisible, lastScrollY, currentScrollY, floatingNav,
                   audioCommand, navMounted, audioDeps, navDeps, seenScrollY,
                   navTween, visibleDeps>>

\* onClick of the audio button.
toggleAudioIndicator ==
    /\ navMounted
    /\ toggles < MaxToggles
    /\ isAudioPlaying' = ~isAudioPlaying
    /\ isIndicatorActive' = ~isIndicatorActive
    /\ toggles' = toggles + 1
    /\ UNCHANGED <<heroVars, contactVars, previewVars>>
    /\ UNCHANGED <<isNavVisible, lastScrollY, currentScrollY, floatingNav,
                   audioCommand, navMounted, audioDeps, navDeps, seenScrollY,
                   navTween, visibleDeps>>

\* The window is scrolled to position y: useWindowScroll delivers it as
\* currentScrollY.  Several scroll events may arrive before the next commit.
WindowScroll(y) ==
    /\ y /= currentScrollY
    /\ currentScrollY' = y
    /\ UNCHANGED <<heroVars, contactVars, previewVars>>
    /\ UNCHANGED <<isAudioPlaying, isIndicatorActive, isNavVisible,
                   lastScrollY, floatingNav, audioCommand, navMounted,
                   audioDeps, navDeps, seenScrollY, toggles, navTween,
                   visibleDeps>>

\* the effects that run at the next commit of NavBar: all of them at the
\* first, afterwards those whose dependencies changed
AudioEffectDue == ~navMounted \/ audioDeps /= isAudioPlaying
ScrollEffectDue == ~navMounted \/ navDeps /= <<currentScrollY, lastScrollY>>
ShowHideEffectDue == ~navMounted \/ visibleDeps /= isNavVisible

\* A commit of NavBar: the audio effect (on [isAudioPlaying]), the scroll
\* effect (on [currentScrollY, lastScrollY]) and the show/hide effect (on
\* [isNavVisible]) run when they are due, each on the state of this render.
NavCommit ==
    /\ AudioEffectDue \/ ScrollEffectDue \/ ShowHideEffectDue
    /\ navMounted' = TRUE
    /\ IF AudioEffectDue
       THEN /\ audioCommand' = AudioCommandFor(isAudioPlaying)
            /\ audioDeps' = isAudioPlaying
       ELSE UNCHANGED <<audioCommand, audioDeps>>
    /\ IF ScrollEffectDue
       THEN /\ isNavVisible' =
                 NavVisibleAfter(currentScrollY, lastScrollY, isNavVisible)
            /\ floatingNav' =
                 FloatingAfter(currentScrollY, lastScrollY, floatingNav)
            /\ lastScrollY' = LastScrollYAfter(currentScrollY, lastScrollY)
            /\ navDeps' = <<currentScrollY, lastScrollY>>
            /\ seenScrollY' = currentScrollY
       ELSE UNCHANGED <<isNavVisible, floatingNav, lastScrollY, navDeps,
                        seenScrollY>>
    /\ IF ShowHideEffectDue
       THEN /\ navTween' = <<NavTweenFor(isNavVisible)>>
            /\ visibleDeps' = isNavVisible
       ELSE UNCHANGED <<navTween, visibleDeps>>
    /\ UNCHANGED <<heroVars, contactVars, previewVars>>
    /\ UNCHANGED <<isAudioPlaying, isIndicatorActive, currentScrollY, toggles>>

NextNavBar ==
    \/ toggleAudioIndicator
    \/ \E y \in 0..MaxScrollY : WindowScroll(y)
    \/ NavCommit

SpecNavBar == InitShipped /\ [][NextNavBar]_vars

\* ============================================================= Contact ===

\* Button passes id and className to <button>; a disabled prop is neither
\* read nor forwarded, so the rendered button is never disabled.
ButtonDisabled(disabledProp) == FALSE

\* the status messages the form renders: the success message when
\* submitStatus === 'success', the failure message when it is 'error'
StatusMessages(status) ==
    (IF status = "success" THEN {"success"} ELSE {})
      \cup (IF status = "error" THEN {"failure"} ELSE {})

\* every field of the form has the required attribute
FormValid == \A f \in FieldNames : formData[f] /= ""

handleInputChange_StaleClosure(name, value) ==
    /\ value /= formData[name]
    /\ formData' = [shownFormData EXCEPT ![name] = value]
    /\ lastInput' = <<name, value>>
    /\ UNCHANGED <<heroVars, navVars, previewVars>>
    /\ UNCHANGED <<isSubmitting, submitStatus, inFlight, submits, completions,
                   shownFormData>>

\* onChange of the field called name: setFormData(prev => ({ ...prev,
\* [name]: value })), applied to the latest formData.
handleInputChange(name, value) ==
    /\ value /= formData[name]
    /\ formData' = [formData EXCEPT ![name] = value]
    /\ lastInput' = <<name, value>>
    /\ UNCHANGED <<heroVars, navVars, previewVars>>
    /\ UNCHANGED <<isSubmitting, submitStatus, inFlight, submits, completions,
                   shownFormData>>

\* onSubmit of the form, up to the await: the browser submits a form whose
\* required fields are filled in and whose submit button is not disabled.
handleSubmit ==
    /\ FormValid
    /\ ~ButtonDisabled(isSubmitting)
    /\ submits < MaxSubmits
    /\ isSubmitting' = TRUE
    /\ submitStatus' = "null"
    /\ inFlight' = inFlight + 1
    /\ submits' = submits + 1
    /\ UNCHANGED <<heroVars, navVars, previewVars>>
    /\ UNCHANGED <<formData, completions, shownFormData, lastInput>>

SubmitTimerFires_Rejects ==
    /\ inFlight > 0
    /\ submitStatus' = "error"
    /\ isSubmitting' = FALSE
    /\ inFlight' = inFlight - 1
    /\ completions' = completions + 1
    /\ UNCHANGED <<heroVars, navVars, previewVars>>
    /\ UNCHANGED <<formData, submits, shownFormData, lastInput>>

SubmitTimerFires_KeepsForm ==
    /\ inFlight > 0
    /\ submitStatus' = "success"
    /\ isSubmitting' = FALSE
    /\ inFlight' = inFlight - 1
    /\ completions' = completions + 1
    /\ UNCHANGED <<heroVars, navVars, previewVars>>
    /\ UNCHANGED <<formData, submits, shownFormData, lastInput>>

\* The 2000 ms timer of one handleSubmit call fires and the call runs to its
\* end: the try block after the await, then finally.  The promise never
\* rejects, so the catch block is not reached.
SubmitTimerFires ==
    /\ inFlight > 0
    /\ formData' = EmptyForm
    /\ submitStatus' = "success"
    /\ isSubmitting' = FALSE
    /\ inFlight' = inFlight - 1
    /\ completions' = completions + 1
    /\ UNCHANGED <<heroVars, navVars, previewVars>>
    /\ UNCHANGED <<submits, shownFormData, lastInput>>

\* A commit of Contact: the inputs (value={formData.name} ...) and the
\* closures of the handlers take the current formData.
ContactCommit ==
    /\ shownFormData /= formData
    /\ shownFormData' = formData
    /\ UNCHANGED <<heroVars, navVars, previewVars>>
    /\ UNCHANGED <<formData, isSubmitting, submitStatus, inFlight, submits,
                   completions, lastInput>>

NextContact ==
    \/ \E name \in FieldNames, value \in FieldValues :
          handleInputChange(name, value)
    \/ handleSubmit
    \/ SubmitTimerFires
    \/ ContactCommit

\* setTimeout(resolve, 2000) fires while the page is open: a pending timer
\* is not postponed forever.
SpecContact ==
    InitShipped /\ [][NextContact]_vars /\ WF_vars(SubmitTimerFires)

\* -------------------------------------------------------------- claims ---

\* a click has been handled in this step
Advanced == clicks' = clicks + 1

\* C1: with totalVideos >= 2, in every reachable state the preview index
\* rendered by Hero is (currentIndex mod totalVideos) + 1, its locator is the
\* one of that index, and it differs from currentIndex.
C1_PreviewIsCyclicSuccessor ==
    totalVideos >= 2 =>
        /\ PreviewIndex(currentIndex, totalVideos)
             = (currentIndex % totalVideos) + 1
        /\ PreviewSrc = getVideoSrc((currentIndex % totalVideos) + 1)
        /\ PreviewIndex(currentIndex, totalVideos) /= currentIndex

\* the preview of the last index, after clicks and load events
C1_Witness ==
    /\ totalVideos >= 2
    /\ currentIndex = totalVideos
    /\ clicks > 0
    /\ loadedVideos > 0
    /\ PreviewIndex(currentIndex, totalVideos) = 1

\* C2: currentIndex starts at 1 and is an integer of 1..totalVideos in every
\* reachable state.
C2_IndexInRange ==
    /\ currentIndex \in 1..totalVideos
    /\ (clicks = 0 => currentIndex = 1)

\* the index after it has wrapped around, with load events in between
C2_Witness ==
    /\ totalVideos >= 2
    /\ clicks > totalVideos
    /\ loadedVideos > 0
    /\ currentIndex = 1

\* C3: one handleMiniVdClick sets hasClicked and moves currentIndex to the
\* preview index of the state before: currentIndex + 1 below totalVideos,
\* and 1 at totalVideos.
C3_AdvanceTakesPreview ==
    [][Advanced =>
         /\ hasClicked' = TRUE
         /\ currentIndex' = PreviewIndex(currentIndex, totalVideos)
         /\ currentIndex' = IF currentIndex < totalVideos
                            THEN currentIndex + 1
                            ELSE 1]_vars

\* a click at the last index has wrapped to 1
C3_Witness ==
    /\ totalVideos = ShippedTotalVideos
    /\ clicks = totalVideos
    /\ hasClicked
    /\ currentIndex = 1

\* C4: totalVideos clicks in a row bring every index of 1..totalVideos back
\* to itself; in a run, currentIndex is back at its start value 1 whenever
\* the number of clicks is a multiple of totalVideos.
C4_CyclicClosure ==
    /\ \A start \in 1..totalVideos :
          AdvanceTimes(start, totalVideos, totalVideos) = start
    /\ AdvanceTimes(currentIndex, totalVideos, totalVideos) = currentIndex
    /\ (clicks % totalVideos = 0 => currentIndex = 1)

\* exactly totalVideos clicks have been handled, the last three of them
\* after the commit of index 2, and currentIndex is back at 1
C4_Witness ==
    /\ totalVideos = ShippedTotalVideos
    /\ clicks = totalVideos
    /\ shownIndex = 2
    /\ currentIndex = 1

\* C5: after every click the main background locator is the locator the
\* preview had before the click, and the new preview is its cyclic successor.
C5_PreviewBecomesBackground ==
    [][(Advanced /\ totalVideos = ShippedTotalVideos) =>
         /\ MainSrc' = PreviewSrc
         /\ PreviewSrc' =
              getVideoSrc(NextIndex(NextIndex(currentIndex, totalVideos),
                                    totalVideos))]_vars

\* C6 (as stated): at currentIndex = totalVideos the main background locator
\* is the one of index 1, not the one of index totalVideos.
C6_LastIndexShowsFirst ==
    (totalVideos = ShippedTotalVideos /\ currentIndex = totalVideos) =>
        /\ MainSrc = getVideoSrc(1)
        /\ MainSrc /= getVideoSrc(totalVideos)

\* C6 (amended): at currentIndex = totalVideos the main background locator is
\* the one of index totalVideos; the index whose background is the locator
\* of index 1 instead is totalVideos - 1.
C6_SpecialCaseBeforeLast ==
    /\ currentIndex = totalVideos => MainSrc = getVideoSrc(totalVideos)
    /\ currentIndex = totalVideos - 1 => MainSrc = getVideoSrc(1)

\* the last index of the shipped carousel is committed
C6_Witness ==
    /\ totalVideos = ShippedTotalVideos
    /\ currentIndex = totalVideos
    /\ shownIndex = currentIndex
    /\ ~dirty

\* C7 (as stated): the main background differs from currentIndex at the last
\* index only: at every index of 1..totalVideos - 1 its locator is
\* getVideoSrc(currentIndex), and at totalVideos it is not.
C7_DivergesAtLastOnly ==
    totalVideos = ShippedTotalVideos =>
        /\ currentIndex \in 1..(totalVideos - 1)
             => MainSrc = getVideoSrc(currentIndex)
        /\ currentIndex = totalVideos
             => MainSrc /= getVideoSrc(currentIndex)

\* C7 (amended): the main background locator differs from
\* getVideoSrc(currentIndex) exactly at currentIndex = totalVideos - 1, for
\* totalVideos >= 3 (below 3 it never differs).
C7_DivergesBeforeLastOnly ==
    (MainSrc /= getVideoSrc(currentIndex))
        <=> (currentIndex = totalVideos - 1 /\ totalVideos >= 3)

\* the index before the last is committed and shows the locator of index 1
C7_Witness ==
    /\ totalVideos = ShippedTotalVideos
    /\ currentIndex = totalVideos - 1
    /\ shownIndex = currentIndex
    /\ MainSrc = getVideoSrc(1)

\* the loading effect has seen the current value of loadedVideos
LoadingEffectHasRun == mounted /\ effLoaded = loadedVideos

\* C8: loading is true at the start and as long as fewer than
\* totalVideos - 1 load events were handled; it is false when exactly
\* totalVideos - 1 were handled and the loading effect has run.
C8_LoadingGate ==
    /\ ~mounted => loading
    /\ loadedVideos < totalVideos - 1 => loading
    /\ (loadedVideos = totalVideos - 1 /\ LoadingEffectHasRun) => ~loading

\* the third load event of the shipped carousel has switched loading off
C8_Witness ==
    /\ totalVideos = ShippedTotalVideos
    /\ loadedVideos = totalVideos - 1
    /\ LoadingEffectHasRun
    /\ ~loading

\* C9: loading is a one-way latch: no step makes it true again.
C9_LoadingLatch == [][~loading => ~loading']_vars

\* loading is off, and more load events and clicks were handled and
\* committed after that
C9_Witness ==
    /\ totalVideos = ShippedTotalVideos
    /\ ~loading
    /\ loadedVideos > totalVideos - 1
    /\ clicks > 0
    /\ LoadingEffectHasRun

\* C10: loadedVideos is the number of distinct video resources that have
\* signalled readiness, and so never exceeds totalVideos.
C10_CountsDistinctResources ==
    totalVideos = ShippedTotalVideos =>
        /\ loadedVideos = Cardinality(signalled)
        /\ loadedVideos <= totalVideos

\* the tween on #next-video has reached its end in this step
AnimationFinished == transition = "running" /\ transition' = "finished"

\* a loadeddata event has been handled in this step
ResourceLoaded == loadedVideos' = loadedVideos + 1

\* C11 (as stated): hasClicked is true from the click until the animation
\* completes, and the completion of the animation clears it.
C11_ClearedOnCompletion ==
    [][(totalVideos = ShippedTotalVideos) =>
         /\ Advanced => hasClicked'
         /\ AnimationFinished => ~hasClicked']_vars

\* C11 (amended): hasClicked is true from the first click on and is never
\* cleared: the completion of the animation leaves it true.
C11_ClickedNeverCleared ==
    [][/\ Advanced => hasClicked'
       /\ hasClicked => hasClicked'
       /\ AnimationFinished => (hasClicked /\ hasClicked')]_vars

\* the animation of the shipped carousel has completed and no click followed
C11_Witness ==
    /\ totalVideos = ShippedTotalVideos
    /\ transition = "finished"
    /\ hasClicked
    /\ currentIndex = shownIndex
    /\ clicks = 1

\* C12: only a click takes hasClicked from false to true; a loadeddata event
\* leaves hasClicked and currentIndex unchanged; hasClicked is false, and no
\* animation has started, in every state before the first click.
C12_OnlyAdvanceStartsTransition ==
    [][/\ (~hasClicked /\ hasClicked') => Advanced
       /\ ResourceLoaded => UNCHANGED <<hasClicked, currentIndex>>
       /\ clicks = 0 => (~hasClicked /\ transition = "idle")]_vars

\* load events were handled and committed before the first click
C12_Witness ==
    /\ totalVideos = ShippedTotalVideos
    /\ clicks = 0
    /\ loadedVideos = 3
    /\ LoadingEffectHasRun
    /\ ~hasClicked

\* C13: a click is accepted while a transition is in flight, and every
\* click moves currentIndex by one cyclic step: after n clicks, however they
\* interleave with commits and with the completion of the animation,
\* currentIndex is n cyclic steps from 1.
C13_ClicksApplyAtOnce ==
    /\ currentIndex = AdvanceTimes(1, totalVideos, clicks)
    /\ (transition = "running" /\ clicks < MaxClicks)
          => ENABLED handleMiniVdClick

\* two clicks were handled while the animation of an earlier click was
\* running, with no commit between them
C13_Witness ==
    /\ totalVideos = ShippedTotalVideos
    /\ transition = "running"
    /\ clicks = 3
    /\ shownIndex = 2
    /\ currentIndex = 4

\* the failure getVideoSrc would report for an index outside 1..totalVideos
OutOfRange == "out-of-range"

\* C14: getVideoSrc returns a locator for every index of 1..totalVideos and
\* fails for every index outside of it.
C14_RejectsOutOfRange ==
    totalVideos = ShippedTotalVideos =>
        /\ \A index \in 1..totalVideos : getVideoSrc(index) /= OutOfRange
        /\ \A index \in {-1, 0, totalVideos + 1, totalVideos + 2} :
              getVideoSrc(index) = OutOfRange

\* C15: with totalVideos = 1 a click changes no state, and no state whose
\* preview index equals currentIndex has hasClicked set.
C15_SingleVideoIsNoOp ==
    [][totalVideos = 1 =>
         /\ Advanced => UNCHANGED <<currentIndex, hasClicked, dirty>>
         /\ ~(hasClicked' /\ PreviewIndex(currentIndex', totalVideos)
                               = currentIndex')]_vars

\* the scroll effect of NavBar has run in this step
ScrollEffectRan == navDeps' /= navDeps

\* C16: when the scroll effect sees a non-zero position above the one it saw
\* at its previous run the navbar becomes hidden, when it sees a non-zero
\* position below it the navbar becomes visible, both with the floating
\* style, for every sequence of scroll positions.
C16_ScrollDirectionRule ==
    [][(ScrollEffectRan /\ currentScrollY /= 0) =>
         /\ currentScrollY > seenScrollY
              => (~isNavVisible' /\ floatingNav')
         /\ currentScrollY < seenScrollY
              => (isNavVisible' /\ floatingNav')]_vars

\* the navbar is visible and floating away from the top: the position went
\* up and then came down to a non-zero value
C16_Witness ==
    /\ currentScrollY = 1
    /\ navDeps = <<1, 2>>
    /\ isNavVisible
    /\ floatingNav

\* C17: when the scroll position is 0 and the scroll effect has run on it,
\* the navbar is visible and the floating style is removed.
C17_TopOfPage ==
    (navDeps /= <<>> /\ navDeps[1] = 0 /\ currentScrollY = 0)
        => (isNavVisible /\ ~floatingNav)

\* the effect has run at the top after the position came back from 2
C17_Witness ==
    /\ currentScrollY = 0
    /\ navDeps = <<0, 2>>
    /\ isNavVisible
    /\ ~floatingNav

\* a handleSubmit call has started / has returned in this step
SubmitStarted == submits' = submits + 1
SubmitCompleted == completions' = completions + 1

\* C18: handleSubmit sets isSubmitting and clears submitStatus; every
\* submission completes; on completion the four fields are empty,
\* submitStatus is success and isSubmitting is false.
C18_SubmissionCompletes ==
    /\ [][SubmitStarted => (isSubmitting' /\ submitStatus' = "null")]_vars
    /\ [][SubmitCompleted =>
            /\ \A f \in FieldNames : formData'[f] = ""
            /\ submitStatus' = "success"
            /\ ~isSubmitting']_vars
    /\ \A k \in 1..MaxSubmits : (submits >= k) ~> (completions >= k)

\* the one submission made has completed and left the form reset
C18_Witness ==
    /\ completions = 1
    /\ submits = 1
    /\ inFlight = 0
    /\ formData = EmptyForm
    /\ submitStatus = "success"
    /\ ~isSubmitting

\* C19: while a submission is in flight the submit button is disabled, so no
\* second handleSubmit starts before the first has finished.
C19_NoSecondSubmission ==
    [][(isSubmitting /\ inFlight > 0) => ~SubmitStarted]_vars

\* C20: isIndicatorActive equals isAudioPlaying, both are false before the
\* first toggle, two toggles restore the state, and once the audio effect
\* has run the last command to the audio element is play() exactly when
\* isAudioPlaying is true and pause() otherwise.
C20_AudioFollowsToggle ==
    /\ isIndicatorActive = isAudioPlaying
    /\ toggles = 0 => ~isAudioPlaying
    /\ isAudioPlaying <=> (toggles % 2 = 1)
    /\ (navMounted /\ audioDeps = isAudioPlaying) =>
          /\ audioCommand \in {"play", "pause"}
          /\ (audioCommand = "play") <=> isAudioPlaying

\* the audio was switched on, off and on again, and the effect has run
C20_Witness ==
    /\ toggles = 3
    /\ isAudioPlaying
    /\ audioDeps = isAudioPlaying
    /\ audioCommand = "play"

IndexCommitted == shownIndex' /= shownIndex

\* C23: before the first click the transition animation has not run (no
\* tween, overlay invisible, play() not called, no live run); with
\* totalVideos >= 2 every commit whose currentIndex changed after a click
\* leaves exactly one live run of the animation, started in that commit: the
\* tween is running, the overlay is visible and play() has been called.
C23_TransitionStartsPerChange ==
    [][/\ (clicks = 0 =>
              /\ transition = "idle" /\ ~overlayVisible /\ ~overlayPlaying
              /\ activeRuns = 0)
       /\ (clicks' = 0 =>
              /\ transition' = "idle" /\ ~overlayVisible' /\ ~overlayPlaying'
              /\ activeRuns' = 0)
       /\ (IndexCommitted /\ totalVideos >= 2 /\ clicks > 0 =>
              /\ transition' = "running"
              /\ overlayVisible' /\ overlayPlaying'
              /\ activeRuns' = 1)]_vars

\* the transition has started for at least the second click
C23_Witness ==
    /\ totalVideos >= 2
    /\ clicks >= 2
    /\ shownIndex = currentIndex
    /\ shownIndex /= 1
    /\ transition = "running"
    /\ overlayVisible /\ overlayPlaying
    /\ activeRuns = 1

\* C24: in every reachable state each of the three getVideoSrc calls of Hero
\* (preview, transition overlay, main background) receives an index in
\* 1..totalVideos, for the current state and for the committed one, and the
\* locator requested is one of hero-1 .. hero-totalVideos.
C24_RequestedIndexInRange ==
    \A e \in VideoElements :
        /\ ElementIndex(e, currentIndex, totalVideos) \in 1..totalVideos
        /\ ElementIndex(e, shownIndex, totalVideos) \in 1..totalVideos
        /\ ElementSrc(e, currentIndex, totalVideos)
             \in {getVideoSrc(i) : i \in 1..totalVideos}

\* the last index is rendered: the preview wraps to the first
C24_Witness ==
    /\ totalVideos = ShippedTotalVideos
    /\ clicks > 0
    /\ currentIndex = totalVideos
    /\ shownIndex = currentIndex
    /\ PreviewSrc = getVideoSrc(1)

\* the indices reached from start by 1 .. n - 1 advances
VisitedFrom(start, n) == {AdvanceTimes(start, n, k) : k \in 1..(n - 1)}

\* C25: from any starting index, k advances with 0 < k < totalVideos never
\* return to the starting index, and totalVideos - 1 advances visit every
\* other index exactly once; in a run currentIndex is back at its initial
\* value 1 exactly when the number of clicks is a multiple of totalVideos.
C25_NoShorterPeriod ==
    /\ \A start \in 1..totalVideos :
          /\ \A k \in 1..(totalVideos - 1) :
                AdvanceTimes(start, totalVideos, k) /= start
          /\ VisitedFrom(start, totalVideos) = (1..totalVideos) \ {start}
          /\ \A j, k \in 1..(totalVideos - 1) :
                j /= k => AdvanceTimes(start, totalVideos, j)
                            /= AdvanceTimes(start, totalVideos, k)
    /\ (currentIndex = 1 <=> clicks % totalVideos = 0)

\* three clicks from index 1 with four videos: 2, 3 and 4 were visited
C25_Witness ==
    /\ totalVideos = ShippedTotalVideos
    /\ clicks = totalVideos - 1
    /\ currentIndex = totalVideos
    /\ VisitedFrom(1, totalVideos) = {2, 3, 4}

\* C26: every run of the scroll effect leaves lastScrollY equal to the
\* scroll position it ran on, so the run its own setLastScrollY causes sees
\* lastScrollY = currentScrollY; a run that sees them equal changes neither
\* isNavVisible nor the floating style nor lastScrollY, and after it the
\* effect is not due again: no render loop.
C26_ScrollEffectSettles ==
    [][ScrollEffectRan =>
         /\ lastScrollY' = currentScrollY
         /\ (lastScrollY = currentScrollY =>
               /\ UNCHANGED <<isNavVisible, floatingNav, lastScrollY>>
               /\ ~ScrollEffectDue')]_vars

\* the effect ran again after a scroll away from the top, on equal values,
\* and is not due any more
C26_Witness ==
    /\ navMounted
    /\ Len(navDeps) = 2
    /\ navDeps[1] = navDeps[2]
    /\ navDeps[1] > 0
    /\ ~ScrollEffectDue

\* C27: a hidden navbar (isNavVisible false) has the floating style in every
\* state; once the scroll effect has settled the floating style is present
\* exactly when the scroll position is not 0, and once the show/hide effect
\* has settled too a navbar animated out of view has the floating style.
C27_FloatingWhenSettled ==
    /\ (~isNavVisible => floatingNav)
    /\ (navMounted /\ ~ScrollEffectDue =>
          (floatingNav <=> currentScrollY /= 0))
    /\ (navMounted /\ ~ScrollEffectDue /\ ~ShowHideEffectDue
          /\ navTween = <<NavTweenFor(FALSE)>> => floatingNav)

\* settled after a scroll down: hidden, animated out of view, floating
C27_Witness ==
    /\ navMounted
    /\ ~ScrollEffectDue
    /\ ~ShowHideEffectDue
    /\ currentScrollY > 0
    /\ ~isNavVisible
    /\ navTween = <<NavTweenFor(FALSE)>>
    /\ floatingNav

\* C28: in every reachable state of the Contact form isSubmitting is true
\* exactly when at least one handleSubmit call is still waiting for its
\* timer, also when submissions overlap.
C28_SubmittingIffInFlight == isSubmitting <=> inFlight > 0

\* C29: submitStatus is never 'error' in a reachable state of the Contact
\* form: it is null or 'success', the failure message is never rendered and
\* the success message is rendered exactly when the status is 'success'.
C29_StatusNeverError ==
    /\ submitStatus \in {"null", "success"}
    /\ "failure" \notin StatusMessages(submitStatus)
    /\ (submitStatus = "success" <=> StatusMessages(submitStatus) = {"success"})

\* two overlapping submissions have both run to their end
C29_Witness ==
    /\ submits = 2
    /\ completions = 2
    /\ inFlight = 0
    /\ submitStatus = "success"
    /\ StatusMessages(submitStatus) = {"success"}

\* a change event has been handled in this step
InputChanged == formData' /= formData /\ completions' = completions

\* C30: a step of handleInputChange for a field name replaces that field of
\* the latest formData with the event value and leaves the other three
\* fields, isSubmitting and submitStatus unchanged, also when earlier changes
\* have not been committed yet.
C30_InputChangeFrame ==
    [][InputChanged =>
         /\ Len(lastInput') = 2
         /\ lastInput'[1] \in FieldNames
         /\ formData' = [formData EXCEPT ![lastInput'[1]] = lastInput'[2]]
         /\ \A f \in FieldNames \ {lastInput'[1]} : formData'[f] = formData[f]
         /\ UNCHANGED <<isSubmitting, submitStatus>>]_vars

\* three fields were changed since the last commit, during a submission
C30_Witness ==
    /\ completions = 0
    /\ isSubmitting
    /\ lastInput /= <<>>
    /\ Cardinality({f \in FieldNames : formData[f] /= shownFormData[f]}) = 3

\* handleMouseMove has run in this step (seen when its offsets or the
\* isHovering it read differ from those of the call before)
MouseMoved == lastMove' /= lastMove

\* the reset effect of VideoPreview has run in this step: at mount or in a
\* commit after isHovering changed
ResetEffectRan == (~mounted /\ mounted') \/ shownHovering' /= shownHovering

\* C21: a mouse-move handled with isHovering false commands no animation,
\* and a tilt target is only ever commanded while isHovering is true; every
\* run of the reset effect with isHovering false (at mount and after
\* isHovering became false) commands the neutral targets x = y = rotationX =
\* rotationY = 0 for container and content; so once the commit that follows
\* a mouse-leave is done, the last commanded target is the neutral one for
\* as long as the pointer stays outside.
C21_HoverGating ==
    [][/\ (MouseMoved /\ ~lastMove'[3] => tweenTarget' = tweenTarget)
       /\ (tweenTarget' /= tweenTarget /\ tweenTarget' /= <<NeutralTarget>>
             => isHovering /\ shownHovering /\ pointerInside)
       /\ (ResetEffectRan /\ ~isHovering' => tweenTarget' = <<NeutralTarget>>)
       /\ (mounted' /\ ~pointerInside' /\ shownHovering' = isHovering'
             => tweenTarget' = <<NeutralTarget>>)]_vars

\* the pointer tilted the preview, left it, and the reset effect has run
C21_Witness ==
    /\ mounted
    /\ ~pointerInside
    /\ ~isHovering
    /\ ~shownHovering
    /\ Len(lastMove) = 3
    /\ lastMove[3]
    /\ TiltTarget(lastMove[1], lastMove[2]) /= NeutralTarget
    /\ tweenTarget = <<NeutralTarget>>

=============================================================================
